---- MODULE Spec2Model ----
(***************************************************************************)
(* Partition-tree construction for the boids simulation.                   *)
(*                                                                         *)
(*   src/src/main.rs  the CPU prototype: root_select, select, bubble,      *)
(*                    bubble_step, plane_from_acc_half, build_accelerator  *)
(*   src/src/sim.rs   the device-backed Simulation: new, boids, step,      *)
(*                    select, reduce, acc_to_group                         *)
(*                                                                         *)
(* Agent coordinates are counted in units of 1/2: the integer k of a       *)
(* position or heading stands for the f32 value k / 2 (so -1, 0, 1 are     *)
(* -0.5, 0, 0.5, values the generators of random_boids return). f32 holds  *)
(* and adds these small multiples of 1/2 without rounding, so sums are     *)
(* kept as integer triples in the same unit. Quotients, differences and    *)
(* dot products are computed in f32 (IEEE 754 binary32, round to nearest   *)
(* even), each value held as its bit pattern.                              *)
(***************************************************************************)
EXTENDS Integers, Sequences, FiniteSets, TLC

VARIABLES
    boids,        \* the agent buffer: main.rs `boids`, sim.rs `boids_gpu`
    acc,          \* the accumulator buffer: main.rs `acc`, sim.rs `acc_gpu`
    partitions,   \* the flattened tree of Option<Plane> / Option<Group>
    halves,       \* per partitions entry, the accumulator half it was derived from
    level,        \* loop variable of the tree build
    mask,         \* loop variable of the tree build
    total,        \* running parent index of the tree build
    levels,       \* tree depth: main.rs `levels`, sim.rs `settings.tree_depth`
    pc,           \* position of the running function
    acc_in,       \* the accumulator buffer as it was when the last bubble began
    stride,       \* loop variable of bubble (main.rs) and reduce (sim.rs)
    sim,          \* the Simulation object of sim.rs and the host's view of the device
    entry         \* the two buffers as build_accelerator received them

vars ==
    <<boids, acc, partitions, halves, level, mask, total, levels, pc, acc_in, stride, sim,
      entry>>

------------------------------------------------------------------------------
(* Bounds of the model *)

\* agent coordinates, in units of 1/2: -0.5, 0, 0.5
Coords == {-1, 0, 1}
\* tree depths 1..MaxDepth
MaxDepth == 3
\* buffer lengths of the CPU tree build (powers of two, as main.rs uses 1 << 8)
BoidCounts == {1, 2, 4}
\* buffer lengths of the reduction check
ReduceSizes == {1, 2, 16, 256}
\* the synthetic accumulator contents are indexed by two numbers in 0..MaxFill
MaxFill == 3
\* the stream of thread_rng, and with it the population random_boids draws, is one
\* of the streams 0..MaxSeed
MaxSeed == 1
\* Simulation::reduce is tried on the populations of 1..MaxReduceGroups work groups
MaxReduceGroups == 3
\* a level of up to MaxPermuted masks is split in every order of its masks; a longer
\* level in increasing order, rotated by one, and in reverse
MaxPermuted == 4
\* Simulation::new is tried with work_groups in 0..MaxWorkGroups
MaxWorkGroups == 1
\* Simulation::new is tried with tree_depth in 0..MaxTreeDepth
MaxTreeDepth == 2
\* step() is called at most MaxSteps times on one Simulation
MaxSteps == 2

------------------------------------------------------------------------------
(* Vec3 arithmetic (nalgebra::Vector3<f32> in main.rs, [f32; 3] in sim.rs) *)

Zeros == <<0, 0, 0>>

VAdd(a, b) == <<a[1] + b[1], a[2] + b[2], a[3] + b[3]>>

Abs(x) == IF x < 0 THEN -x ELSE x

Sign(x) == IF x < 0 THEN -1 ELSE 1

RECURSIVE Pow2(_)
Pow2(n) == IF n = 0 THEN 1 ELSE 2 * Pow2(n - 1)

\* bit `b` of the unsigned integer m
Bit(m, b) == (m \div Pow2(b)) % 2

\* m | (1 << b)
SetBit(m, b) == IF Bit(m, b) = 1 THEN m ELSE m + Pow2(b)

------------------------------------------------------------------------------
(* f32 arithmetic: IEEE 754 binary32, round to nearest, ties to even. The values the
   program computes stay far inside the normal range, so subnormals, infinities and
   NaN are left out; -0 is not told apart from 0 (both fail > 0.). *)

\* the element of a one-element set. An operator below takes its operands through
\* one-element sets, so that an operand is computed once however often it is read
The(S) == CHOOSE x \in S : TRUE

\* an f32 is m * 2^e with 2^23 <= |m| < 2^24, or zero. It is held as the integer of
\* its bit pattern without the sign bit, (e + 150) * 2^23 + (|m| - 2^23), negated when
\* the sign bit is set: the order and the sign of these integers are those of the
\* values
F32Zero == 0

\* 2^n for the shifts of 32-bit arithmetic, computed once
Pow2Of == [n \in 0..30 |-> Pow2(n)]

\* the number of bits of n > 0, by halving the range 1..31
BitLen(n) ==
    The({b1 + 1 :
           b1 \in {IF n >= Pow2Of[b2 + 1] THEN b2 + 1 ELSE b2 :
                     b2 \in {IF n >= Pow2Of[b4 + 2] THEN b4 + 2 ELSE b4 :
                               b4 \in {IF n >= Pow2Of[b8 + 4] THEN b8 + 4 ELSE b8 :
                                         b8 \in {IF n >= Pow2Of[b16 + 8] THEN b16 + 8 ELSE b16 :
                                                   b16 \in {IF n >= Pow2Of[16] THEN 16 ELSE 0}}}}}})

F32Make(m, e) == Sign(m) * ((e + 150) * Pow2Of[23] + (Abs(m) - Pow2Of[23]))

\* the signed mantissa and the exponent of a non-zero f32
F32M(x) == Sign(x) * (Pow2Of[23] + (Abs(x) % Pow2Of[23]))

F32E(x) == Abs(x) \div Pow2Of[23] - 150

\* sgn * M * 2^E rounded to 24 significant bits; an odd M whose lowest bit stands
\* for "some lower bit is set" rounds as the exact value does
F32RoundTo(sgn, M, E, b) ==
    IF M = 0 THEN F32Zero
    ELSE IF b <= 24
    THEN F32Make(sgn * M * Pow2Of[24 - b], E - (24 - b))
    ELSE LET s == b - 24
             q == M \div Pow2Of[s]
             r == M % Pow2Of[s]
             half == Pow2Of[s - 1]
             q1 == IF r > half \/ (r = half /\ q % 2 = 1) THEN q + 1 ELSE q
         IN  IF q1 = Pow2Of[24]
             THEN F32Make(sgn * Pow2Of[23], E + s + 1)
             ELSE F32Make(sgn * q1, E + s)

F32Round(sgn, M, E) ==
    The({The({F32RoundTo(g, m, e, b) : b \in {IF m = 0 THEN 0 ELSE BitLen(m)}}) :
           g \in {sgn}, m \in {M}, e \in {E}})

\* the exponent of the unit coordinates are counted in: k stands for k * 2^-1.
\* Uniform::new(-1., 1.) and Uniform::new(-10., 10.) return -0.5, 0 and 0.5; 1.0 is
\* the excluded end of the first and is not among the values of the second
CoordExp == -1

\* the coordinate k, an integer below 2^24, as f32 (exact)
F32FromInt(k) == F32Round(Sign(k), Abs(k), CoordExp)

\* the least k with a * 2^k >= lim, for a below lim
F32DivShift(a, lim) ==
    The({IF a * Pow2Of[k] >= lim THEN k ELSE k + 1 : k \in {BitLen(lim) - BitLen(a)}})

\* (the coordinate sum s as f32) / (n as f32) for integers s and 0 < n, both below 64:
\* the quotient to 25 bits and a sticky bit, rounded
F32IntDivBy(s, n, k) ==
    LET a == Abs(s) * Pow2Of[k]
        q == a \div n
    IN  F32Round(Sign(s), 2 * q + (IF a % n = 0 THEN 0 ELSE 1), CoordExp - k - 1)

F32IntDiv(s, n) ==
    IF s = 0 THEN F32Zero
    ELSE The({F32IntDivBy(s, n, k) :
                k \in {IF Abs(s) >= n * Pow2Of[24] THEN 0
                       ELSE F32DivShift(Abs(s), n * Pow2Of[24])}})

F32Neg(a) == -a

\* a + b: the operand of the lower exponent is shifted right keeping three guard
\* bits and a sticky bit
F32AddOf(a, b) ==
    IF a = 0 THEN b
    ELSE IF b = 0 THEN a
    ELSE LET hi == IF Abs(a) >= Abs(b) THEN a ELSE b
             lo == IF Abs(a) >= Abs(b) THEN b ELSE a
             d == F32E(hi) - F32E(lo)
             w == Abs(F32M(lo)) * 8
             t == IF d > 28 THEN 0 ELSE w \div Pow2Of[d]
             sticky == IF d > 28 THEN 1 ELSE IF w % Pow2Of[d] = 0 THEN 0 ELSE 1
             v == F32M(hi) * 16 + Sign(lo) * (2 * t + sticky)
         IN  F32Round(Sign(v), Abs(v), F32E(hi) - 4)

F32Add(x, y) == The({F32AddOf(a, b) : a \in {x}, b \in {y}})

F32Sub(a, b) == F32Add(a, F32Neg(b))

\* a * b: the 48-bit product of the mantissas from 12-bit halves, its top 26 bits and
\* a sticky bit, rounded
F32MulOf(a, b) ==
    IF a = 0 \/ b = 0 THEN F32Zero
    ELSE LET c == Pow2Of[12]
             ah == Abs(F32M(a)) \div c
             al == Abs(F32M(a)) % c
             bh == Abs(F32M(b)) \div c
             bl == Abs(F32M(b)) % c
             mid == ah * bl + al * bh
             low == (mid % c) * c + al * bl
             hi == ah * bh + mid \div c + low \div Pow2Of[24]
             lo == low % Pow2Of[24]
             top == hi * 4 + lo \div Pow2Of[22]
             sticky == IF lo % Pow2Of[22] = 0 THEN 0 ELSE 1
         IN  F32Round(Sign(a) * Sign(b), 2 * top + sticky, F32E(a) + F32E(b) + 21)

F32Mul(x, y) == The({F32MulOf(a, b) : a \in {x}, b \in {y}})

\* Vec3 / f32 of a vector of coordinate sums by a count: component-wise
V32Div(v, n) == <<F32IntDiv(v[1], n), F32IntDiv(v[2], n), F32IntDiv(v[3], n)>>

\* an agent position as a Vec3 of f32
V32FromInt(v) == <<F32FromInt(v[1]), F32FromInt(v[2]), F32FromInt(v[3])>>

\* Vec3 - Vec3
V32Sub(a, b) == <<F32Sub(a[1], b[1]), F32Sub(a[2], b[2]), F32Sub(a[3], b[3])>>

\* Vector3::dot: a.x * b.x + a.y * b.y + a.z * b.z, summed left to right
V32DotOf(a, b) ==
    F32Add(F32Add(F32Mul(a[1], b[1]), F32Mul(a[2], b[2])), F32Mul(a[3], b[3]))

V32Dot(x, y) == The({V32DotOf(a, b) : a \in {x}, b \in {y}})

------------------------------------------------------------------------------
(* main.rs data *)

None == [some |-> FALSE]

\* BoidAccumulatorHalf::default
HalfDefault == [pos |-> Zeros, heading |-> Zeros, count |-> 0]

\* BoidAccumulator::default
AccDefault == [left |-> HalfDefault, right |-> HalfDefault]

HalfAdd(a, b) ==
    [pos |-> VAdd(a.pos, b.pos), heading |-> VAdd(a.heading, b.heading),
     count |-> a.count + b.count]

\* the agents random_boids may produce, cut down to a small family in the z = 0
\* plane; as f32: positions (x/2, y/2, 0), headings (0.5, 0, 0) and (-0.5, 0.5, 0)
AgentInputs ==
    {[pos |-> <<x, y, 0>>, heading |-> <<1, 0, 0>>, mask |-> 0, level |-> 0] :
        x \in Coords, y \in {0, 1}}
    \cup {[pos |-> <<x, 0, 0>>, heading |-> <<-1, 1, 0>>, mask |-> 0, level |-> 0] :
        x \in Coords}

\* the largest buffer of the CPU tree build
MaxCount == CHOOSE n \in BoidCounts : \A k \in BoidCounts : k <= n

\* the half an agent is seeded as (count 1) and the sums of up to n agents of the family
HalfOfAgent(a) == [pos |-> a.pos, heading |-> a.heading, count |-> 1]

RECURSIVE HalvesOf(_)
HalvesOf(n) ==
    IF n = 1
    THEN {HalfOfAgent(a) : a \in AgentInputs}
    ELSE LET H == HalvesOf(n - 1)
         IN  H \cup {HalfAdd(h, HalfOfAgent(a)) : h \in H, a \in AgentInputs}

\* the accumulator slot an earlier construction may have left at index i (0-based)
UsedAcc(i) ==
    [left |-> [pos |-> <<1, i, 1>>, heading |-> <<i, 1, 1>>, count |-> 5 - i],
     right |-> [pos |-> <<2, 2, i>>, heading |-> <<2, i, 2>>, count |-> 7 + i]]

\* what the right halves left by an earlier construction add up to over n slots
RECURSIVE UsedRightSum(_)
UsedRightSum(n) ==
    IF n = 1 THEN UsedAcc(0).right
    ELSE HalfAdd(UsedRightSum(n - 1), UsedAcc(n - 1).right)

KnownHalves == HalvesOf(MaxCount) \cup {UsedRightSum(n) : n \in BoidCounts}

\* the Plane of a non-empty half: pos: half.pos / n, normal: half.heading / n
plane_of(half) ==
    [some |-> TRUE,
     pos |-> V32Div(half.pos, half.count),
     normal |-> V32Div(half.heading, half.count)]

\* plane_of tabulated once for the sums of the family (@@ makes the function a table
\* of its values)
KnownPlanes == [h \in KnownHalves |-> plane_of(h)] @@ <<>>

\* plane_from_acc_half: None when the half is empty, else the two means
plane_from_acc_half(half) ==
    IF half.count = 0
    THEN None
    ELSE IF half \in KnownHalves THEN KnownPlanes[half] ELSE plane_of(half)

\* (pt - plane.pos).dot(&plane.normal) of plane_side, in f32
plane_dot(pt, plane) == V32Dot(V32Sub(V32FromInt(pt), plane.pos), plane.normal)

\* the agents of the family with the planes of their sums
KnownKeys == {a.pos : a \in AgentInputs} \X {plane_of(h) : h \in KnownHalves}

\* plane_dot tabulated once for them
KnownDots == [k \in KnownKeys |-> plane_dot(k[1], k[2])] @@ <<>>

\* plane_dot(pt, plane), looked up where it is tabulated
dot_of(pt, plane) ==
    IF <<pt, plane>> \in KnownKeys
    THEN KnownDots[<<pt, plane>>]
    ELSE plane_dot(pt, plane)

\* plane_side with >= in place of >: an agent on the plane goes left
plane_side_ge(pt, plane) == dot_of(pt, plane) >= F32Zero

\* plane_side: (pt - plane.pos).dot(&plane.normal) > 0.
plane_side(pt, plane) == dot_of(pt, plane) > F32Zero

\* select testing only the level of the tag, not the mask
select_boid_any_mask(boid, lvl, msk, plane) ==
    IF boid.level = lvl
    THEN [boid EXCEPT !.mask = IF plane_side(boid.pos, plane)
                                THEN SetBit(boid.mask, lvl) ELSE boid.mask,
                      !.level = lvl + 1]
    ELSE boid

\* one iteration of select's loop over boids.zip(acc): the new boid
select_boid(boid, lvl, msk, plane) ==
    IF boid.mask = msk /\ boid.level = lvl
    THEN [boid EXCEPT !.mask = IF plane_side(boid.pos, plane)
                                THEN SetBit(boid.mask, lvl) ELSE boid.mask,
                      !.level = lvl + 1]
    ELSE boid

\* select's accumulator write without the zeroing of the opposite half: both seeded
select_acc_both(boid, lvl, msk, plane) ==
    IF boid.mask = msk /\ boid.level = lvl
    THEN LET set == [pos |-> boid.pos, heading |-> boid.heading, count |-> 1]
         IN  [left |-> set, right |-> set]
    ELSE AccDefault

\* one iteration of select's loop over boids.zip(acc): the new accumulator slot
select_acc(boid, lvl, msk, plane) ==
    IF boid.mask = msk /\ boid.level = lvl
    THEN LET set == [pos |-> boid.pos, heading |-> boid.heading, count |-> 1]
         IN  IF plane_side(boid.pos, plane)
             THEN [left |-> set, right |-> HalfDefault]
             ELSE [left |-> HalfDefault, right |-> set]
    ELSE AccDefault

Min(a, b) == IF a < b THEN a ELSE b

\* select: zip stops at the shorter of the two slices
select_boids(bs, ac, lvl, msk, plane) ==
    [i \in 1..Len(bs) |->
        IF i <= Min(Len(bs), Len(ac)) THEN select_boid(bs[i], lvl, msk, plane) ELSE bs[i]]

\* select without the zeroing loop: the slot of an agent that is not matched is kept
select_accs_keeps(bs, ac, lvl, msk, plane) ==
    [i \in 1..Len(ac) |->
        IF i <= Min(Len(bs), Len(ac)) /\ bs[i].mask = msk /\ bs[i].level = lvl
        THEN select_acc(bs[i], lvl, msk, plane)
        ELSE ac[i]]

\* select, the accumulator buffer: every zipped slot is rewritten
select_accs(bs, ac, lvl, msk, plane) ==
    [i \in 1..Len(ac) |->
        IF i <= Min(Len(bs), Len(ac)) THEN select_acc(bs[i], lvl, msk, plane) ELSE ac[i]]

\* root_select adding each agent into the left half in place of overwriting it
root_select_adds(bs, ac) ==
    [i \in 1..Len(ac) |->
        IF i <= Min(Len(bs), Len(ac))
        THEN [ac[i] EXCEPT !.left = HalfAdd(ac[i].left,
                                            [pos |-> bs[i].pos, heading |-> bs[i].heading,
                                             count |-> 1])]
        ELSE ac[i]]

\* root_select: only the left half is written
root_select(bs, ac) ==
    [i \in 1..Len(ac) |->
        IF i <= Min(Len(bs), Len(ac))
        THEN [ac[i] EXCEPT !.left = [pos |-> bs[i].pos, heading |-> bs[i].heading,
                                     count |-> 1]]
        ELSE ac[i]]

\* bubble_step: slots are 0-based in the source, 1-based here
bubble_step(ac, s) ==
    [j \in 1..Len(ac) |->
        LET base == j - 1
            other == base + s \div 2
        IN  IF base % s = 0 /\ base \div s < Len(ac) \div s
            THEN [left |-> HalfAdd(ac[j].left, ac[other + 1].left),
                  right |-> HalfAdd(ac[j].right, ac[other + 1].right)]
            ELSE ac[j]]

\* bubble's loop guard with < in place of <=: the last pass is never run
bubble_continues_lt(ac, s) == s < Len(ac)

\* bubble's loop guard: while stride <= acc.len()
bubble_continues(ac, s) == s <= Len(ac)

\* the one element of a singleton set: binds an intermediate result to its value
\* (SubSeq lists the buffer's slots), so that the buffer passed on to the next pass
\* is computed once

RECURSIVE bubble_from(_, _)
bubble_from(ac, s) ==
    IF bubble_continues(ac, s)
    THEN The({bubble_from(next, 2 * s) : next \in {SubSeq(bubble_step(ac, s), 1, Len(ac))}})
    ELSE ac

\* bubble: stride = 2; while stride <= acc.len() { bubble_step; stride <<= 1 }
bubble(ac) == bubble_from(ac, 2)

\* plane_from_acc0: the two planes of slot 0 (the counts it reads are kept in halves)
plane_from_acc0(ac) ==
    <<plane_from_acc_half(ac[1].left), plane_from_acc_half(ac[1].right)>>

------------------------------------------------------------------------------
(* build_accelerator of main.rs, one action per statement group *)

\* no Simulation has been constructed
NoSim ==
    [state |-> "none", requested |-> [work_groups |-> 0, tree_depth |-> 0],
     settings |-> [work_groups |-> 0, tree_depth |-> 0], n_boids |-> 0,
     boids_host |-> <<>>, boids_dirty |-> FALSE, groups_gpu |-> <<>>, buffers |-> 0,
     call |-> "none", result |-> "none", ops |-> <<>>, ret |-> <<>>, n_groups |-> 0,
     steps |-> 0, seed |-> 0, draws |-> 0]

\* the agents of the family that the used buffers are tried with
UsedInputs == {a \in AgentInputs : a.pos[1] # 1}

\* the tag an earlier construction may have left on agent i (0-based): level
\* 1 or 2 and a mask of that many bits
UsedTag(i) == [level |-> 1 + (i % 2), mask |-> (i \div 2) % Pow2(1 + (i % 2))]

\* the buffers build_accelerator is called on: fresh, as in main() (acc =
\* vec![BoidAccumulator::default(); n], boids = random_boids(n, 10.) with tags (0, 0)),
\* or used, holding the tags and sums of an earlier construction
Init ==
    /\ \E n \in BoidCounts, used \in BOOLEAN :
          \E fresh \in [1..n -> IF used THEN UsedInputs ELSE AgentInputs] :
             /\ boids = [i \in 1..n |->
                           IF used
                           THEN [fresh[i] EXCEPT !.level = UsedTag(i - 1).level,
                                                 !.mask = UsedTag(i - 1).mask]
                           ELSE fresh[i]]
             /\ acc = [i \in 1..n |-> IF used THEN UsedAcc(i - 1) ELSE AccDefault]
    /\ entry = [boids |-> boids, acc |-> acc]
    /\ levels \in 1..MaxDepth
    /\ partitions = <<>>
    /\ halves = <<>>
    /\ level = 0
    /\ mask = 0
    /\ total = 0
    /\ pc = "begin"
    /\ acc_in = <<>>
    /\ stride = 0
    /\ sim = NoSim

\* build_accelerator without the loop that resets the tags
RootSelectOnly ==
    /\ pc = "begin"
    /\ boids' = boids
    /\ acc' = root_select(boids', acc)
    /\ acc_in' = acc'
    /\ pc' = "root_bubble"
    /\ UNCHANGED <<partitions, halves, level, mask, total, levels, stride, sim>>
    /\ UNCHANGED entry

\* lines 94-98: reset every tag, then root_select
ResetAndRootSelect ==
    /\ pc = "begin"
    /\ boids' = [i \in 1..Len(boids) |-> [boids[i] EXCEPT !.level = 0, !.mask = 0]]
    /\ acc' = root_select(boids', acc)
    /\ acc_in' = acc'
    /\ pc' = "root_bubble"
    /\ UNCHANGED <<partitions, halves, level, mask, total, levels, stride, sim>>
    /\ UNCHANGED entry

\* lines 99-103: bubble, the root plane from slot 0's left half, total = 0
RootBubble ==
    /\ pc = "root_bubble"
    /\ acc' = bubble(acc)
    /\ partitions' = <<plane_from_acc0(acc')[1]>>
    /\ halves' = <<acc'[1].left>>
    /\ total' = 0
    /\ level' = 0
    /\ mask' = 0
    /\ pc' = "loop"
    /\ UNCHANGED <<boids, levels, acc_in, stride, sim>>
    /\ UNCHANGED entry

\* the loop header: for level in 0..levels { for mask in 0..(1 << level)
InLoop == pc = "loop" /\ level < levels

\* line 116: partitions[plane_idx] with plane_idx = total
Parent == partitions[total + 1]

\* the inner loop written 0..=(1 << level): one mask too many per level
AdvanceInclusive ==
    /\ total' = total + 1
    /\ IF mask + 1 <= Pow2(level)
       THEN mask' = mask + 1 /\ level' = level
       ELSE mask' = 0 /\ level' = level + 1

\* the next (level, mask) of the nested loops, and total += 1
Advance ==
    /\ total' = total + 1
    /\ IF mask + 1 < Pow2(level)
       THEN mask' = mask + 1 /\ level' = level
       ELSE mask' = 0 /\ level' = level + 1

\* line 117: select(boids, acc, level, mask, plane)
SelectStep ==
    /\ InLoop
    /\ Parent.some
    /\ boids' = select_boids(boids, acc, level, mask, Parent)
    /\ acc' = select_accs(boids, acc, level, mask, Parent)
    /\ acc_in' = acc'
    /\ pc' = "bubble"
    /\ UNCHANGED <<partitions, halves, level, mask, total, levels, stride, sim>>
    /\ UNCHANGED entry

\* lines 118-121 and 127: bubble, push the two planes of slot 0
BubbleStep ==
    /\ pc = "bubble"
    /\ acc' = bubble(acc)
    /\ partitions' = partitions \o plane_from_acc0(acc')
    /\ halves' = halves \o <<acc'[1].left, acc'[1].right>>
    /\ Advance
    /\ pc' = "loop"
    /\ UNCHANGED <<boids, levels, acc_in, stride, sim>>
    /\ UNCHANGED entry

\* the else branch reading slot 0 again instead of pushing None
AbsentStepStale ==
    /\ InLoop
    /\ ~Parent.some
    /\ partitions' = partitions \o plane_from_acc0(acc)
    /\ halves' = halves \o <<acc[1].left, acc[1].right>>
    /\ Advance
    /\ UNCHANGED <<boids, acc, levels, pc, acc_in, stride, sim>>
    /\ UNCHANGED entry

\* lines 122-127: the parent is None, push two None
AbsentStep ==
    /\ InLoop
    /\ ~Parent.some
    /\ partitions' = partitions \o <<None, None>>
    /\ halves' = halves \o <<HalfDefault, HalfDefault>>
    /\ Advance
    /\ UNCHANGED <<boids, acc, levels, pc, acc_in, stride, sim>>
    /\ UNCHANGED entry

\* line 133: the loops are over, partitions is returned
Return ==
    /\ pc = "loop"
    /\ level = levels
    /\ pc' = "done"
    /\ UNCHANGED <<boids, acc, partitions, halves, level, mask, total, levels, acc_in, stride, sim>>
    /\ UNCHANGED entry

Next ==
    \/ ResetAndRootSelect
    \/ RootBubble
    \/ SelectStep
    \/ BubbleStep
    \/ AbsentStep
    \/ Return

Spec == Init /\ [][Next]_vars

------------------------------------------------------------------------------
(* The Simulation of sim.rs.  The compute kernels (kernels/*.comp) are not among  *)
(* the sources; each is modelled from the design text, by the CPU function of     *)
(* main.rs that the text describes.  A failed device operation changes nothing.   *)

LOCAL_X == 16

\* kernels/setup.comp: every tag reset, every left half seeded with its own agent
setup_kernel(bs, ac) ==
    LET reset == [i \in 1..Len(bs) |-> [bs[i] EXCEPT !.level = 0, !.mask = 0]]
    IN  [boids |-> reset, acc |-> root_select(reset, ac)]

\* kernels/select.comp with push constants SelectParams
select_kernel(bs, ac, params) ==
    LET plane == [some |-> TRUE, pos |-> params.plane_pos, normal |-> params.plane_normal]
    IN  [boids |-> select_boids(bs, ac, params.level, params.mask, plane),
         acc |-> select_accs(bs, ac, params.level, params.mask, plane)]

\* kernels/reduce.comp, which is not among the sources: one pass of spec 4.2. The
\* push constant of Simulation::reduce is 1, 2, 4, ... (2^k for pass k), half the
\* span of the pass: slot i * span + span / 2 is added into slot i * span for every
\* i in [0, N / span), with span = 2 * stride. (Read with span = stride, the first
\* pass would add every slot to itself and the pass that joins the two halves of the
\* buffer would never be issued.)
reduce_kernel(ac, s) == bubble_step(ac, 2 * s)

\* one device operation in the log of a call
Op(name, ok) == [op |-> name, ok |-> ok]

\* Simulation::reduce that issues the failed operation a second time
RECURSIVE reduce_from_retry(_, _, _, _, _)
reduce_from_retry(ac, s, n, ops, fail) ==
    IF s < n
    THEN IF fail = Len(ops) + 1
         THEN reduce_from_retry(ac, s, n, Append(ops, Op("reduce", FALSE)), 0)
         ELSE The({reduce_from_retry(next, 2 * s, n, Append(ops, Op("reduce", TRUE)), fail) :
                     next \in {SubSeq(reduce_kernel(ac, s), 1, Len(ac))}})
    ELSE IF fail = Len(ops) + 1
         THEN reduce_from_retry(ac, s, n, Append(ops, Op("read_acc", FALSE)), 0)
         ELSE [acc |-> ac, ops |-> Append(ops, Op("read_acc", TRUE)), ok |-> TRUE]

\* Simulation::reduce from the loop on: stride s, the operations issued so far, and
\* the number of the operation the device fails (0: none)
RECURSIVE reduce_from(_, _, _, _, _)
reduce_from(ac, s, n, ops, fail) ==
    IF s < n
    THEN IF fail = Len(ops) + 1
         THEN [acc |-> ac, ops |-> Append(ops, Op("reduce", FALSE)), ok |-> FALSE]
         ELSE The({reduce_from(next, 2 * s, n, Append(ops, Op("reduce", TRUE)), fail) :
                     next \in {SubSeq(reduce_kernel(ac, s), 1, Len(ac))}})
    ELSE IF fail = Len(ops) + 1
         THEN [acc |-> ac, ops |-> Append(ops, Op("read_acc", FALSE)), ok |-> FALSE]
         ELSE [acc |-> ac, ops |-> Append(ops, Op("read_acc", TRUE)), ok |-> TRUE]

\* Simulation::reduce: stride = 1; while stride < n_boids { run; stride <<= 1 }; read
reduce(ac, n, fail) == reduce_from(ac, 1, n, <<>>, fail)

\* the number of passes reduce issues for n slots
RECURSIVE ReducePassesFrom(_, _)
ReducePassesFrom(s, n) == IF s < n THEN 1 + ReducePassesFrom(2 * s, n) ELSE 0

ReducePasses(n) == ReducePassesFrom(1, n)

\* the values rng.gen_range(-1.0..1.0) is modelled to draw for (hx, hy, hz), in
\* units of 1/2: (0, 0, 0.5), (-0.5, 0.5, 0), (0, -0.5, 0.5), (0.5, 0, 0)
RngVectors == <<<<0, 0, 1>>, <<-1, 1, 0>>, <<0, -1, 1>>, <<1, 0, 0>>>>

\* the k-th draw of stream `seed` of rand::thread_rng, the thread's one generator
RngDraw(seed, k) == RngVectors[((seed * (k + 1) + k) % Len(RngVectors)) + 1]

\* acc_to_group, with the vector r drawn for (hx, hy, hz)
acc_to_group(half, r) ==
    IF half.count > 0
    THEN [some |-> TRUE,
          center |-> V32Div(half.pos, half.count),
          heading |-> V32Div(r, half.count)]
    ELSE None

\* motion_params_from_settings: the n_groups it computes
motion_params_from_settings(st) == [n_groups |-> LOCAL_X * st.work_groups]

\* the asserts of Simulation::new without the one on tree_depth
new_asserts_no_depth(st) == st.work_groups > 0

\* Simulation::new lines 136-137
new_asserts(st) == st.work_groups > 0 /\ st.tree_depth > 0

\* the fallible steps of Simulation::new in order (lines 138-151): each kernel file
\* is read by std::fs::read before engine.spirv is given its bytes
NewOps ==
    <<"engine_new", "file_setup", "spirv_setup", "file_reduce", "spirv_reduce",
      "file_motion", "spirv_motion", "file_select", "spirv_select",
      "buffer_acc", "buffer_boids", "buffer_groups", "write_boids">>

\* the steps that read a file of kernels/ on the host: nothing is asked of the device
KernelFiles == {"file_setup", "file_reduce", "file_motion", "file_select"}

\* the device operations new has issued when steps 1..upto have been taken and step
\* `failed` (0: none) returned Err
NewLog(upto, failed) ==
    SelectSeq([i \in 1..upto |-> Op(NewOps[i], i # failed)],
              LAMBDA o : o.op \notin KernelFiles)

\* agent i (0-based) of population a of random_boids, in units of 1/2: every component of
\* pos and heading is -0.5, 0 or 0.5
PopulationBoid(i, a) ==
    [pos |-> <<((i * (a + 1)) % 3) - 1, ((i \div 3) % 3) - 1, (i + a) % 2>>,
     heading |-> <<1 - 2 * (i % 2), ((i + a) % 3) - 1, 0>>,
     mask |-> 0, level |-> 0]

Population(n, a) == [i \in 1..n |-> PopulationBoid(i - 1, a)]

\* what a freshly allocated accumulator buffer may hold
JunkAcc == [left |-> [pos |-> <<1, 1, 1>>, heading |-> <<1, 1, 1>>, count |-> 5],
            right |-> [pos |-> <<2, 2, 2>>, heading |-> <<2, 2, 2>>, count |-> 7]]

InitSim ==
    /\ sim = NoSim
    /\ boids = <<>>
    /\ acc = <<>>
    /\ partitions = <<>>
    /\ halves = <<>>
    /\ level = 0
    /\ mask = 0
    /\ total = 0
    /\ levels = 0
    /\ pc = "idle"
    /\ acc_in = <<>>
    /\ stride = 0
    /\ entry = <<>>

Requested(wg, td) == [work_groups |-> wg, tree_depth |-> td]

\* lines 136-137: an assert fails, new panics before anything is created
NewPanics ==
    /\ sim.state = "none"
    /\ \E wg \in 0..MaxWorkGroups, td \in 0..MaxTreeDepth :
          /\ ~new_asserts(Requested(wg, td))
          /\ sim' = [sim EXCEPT !.state = "panicked", !.requested = Requested(wg, td),
                                !.call = "new", !.result = "panic"]
    /\ UNCHANGED <<boids, acc, partitions, halves, level, mask, total, levels, pc,
                   acc_in, stride>>
    /\ UNCHANGED entry

\* lines 138-151: step number `fail` (a device operation or the read of a kernel
\* file) returns Err, new returns it
NewFails ==
    /\ sim.state = "none"
    /\ \E wg \in 0..MaxWorkGroups, td \in 0..MaxTreeDepth, fail \in 1..Len(NewOps) :
          /\ new_asserts(Requested(wg, td))
          /\ sim' = [sim EXCEPT
                 !.state = "new_failed", !.requested = Requested(wg, td),
                 !.call = "new", !.result = "err",
                 !.ops = NewLog(fail, fail),
                 !.buffers = Cardinality({i \in 10..12 : i < fail})]
    /\ UNCHANGED <<boids, acc, partitions, halves, level, mask, total, levels, pc,
                   acc_in, stride>>
    /\ UNCHANGED entry

\* lines 138-166: new returns the Simulation
NewOk ==
    /\ sim.state = "none"
    /\ \E wg \in 0..MaxWorkGroups, td \in 0..MaxTreeDepth, seed \in 0..MaxSeed,
          junk \in BOOLEAN :
          LET n == wg * LOCAL_X
              bs == Population(n, seed)
          IN  /\ new_asserts(Requested(wg, td))
              /\ boids' = bs
              /\ acc' = [i \in 1..n |-> IF junk THEN JunkAcc ELSE AccDefault]
              /\ levels' = td
              /\ sim' = [sim EXCEPT
                     !.state = "live", !.requested = Requested(wg, td),
                     !.settings = Requested(wg, td), !.n_boids = n,
                     !.boids_host = bs, !.boids_dirty = FALSE,
                     !.groups_gpu = [i \in 1..Pow2(td) |-> [g |-> None, fresh |-> FALSE]],
                     !.buffers = 3, !.call = "new", !.result = "ok", !.seed = seed,
                     !.ops = NewLog(Len(NewOps), 0)]
    /\ UNCHANGED <<partitions, halves, level, mask, total, pc, acc_in, stride>>
    /\ UNCHANGED entry

\* Simulation::boids without the line boids_dirty = false
boids_call_keeps_dirty(s, dev, ok) ==
    IF s.boids_dirty
    THEN IF ok
         THEN [s EXCEPT !.boids_host = dev, !.call = "boids",
                        !.result = "ok", !.ops = <<Op("read_boids", TRUE)>>, !.ret = dev]
         ELSE [s EXCEPT !.call = "boids", !.result = "err",
                        !.ops = <<Op("read_boids", FALSE)>>, !.ret = <<>>]
    ELSE [s EXCEPT !.call = "boids", !.result = "ok", !.ops = <<>>, !.ret = s.boids_host]

\* Simulation::boids on the object s with device agent buffer dev; ok: the read succeeds
boids_call(s, dev, ok) ==
    IF s.boids_dirty
    THEN IF ok
         THEN [s EXCEPT !.boids_host = dev, !.boids_dirty = FALSE, !.call = "boids",
                        !.result = "ok", !.ops = <<Op("read_boids", TRUE)>>, !.ret = dev]
         ELSE [s EXCEPT !.call = "boids", !.result = "err",
                        !.ops = <<Op("read_boids", FALSE)>>, !.ret = <<>>]
    ELSE [s EXCEPT !.call = "boids", !.result = "ok", !.ops = <<>>, !.ret = s.boids_host]

Idle == sim.state = "live" /\ pc = "idle"

BoidsCall ==
    /\ Idle
    /\ \E ok \in BOOLEAN : sim' = boids_call(sim, boids, ok)
    /\ UNCHANGED <<boids, acc, partitions, halves, level, mask, total, levels, pc,
                   acc_in, stride>>
    /\ UNCHANGED entry

\* step returns Err: the log gets the operations issued, the position is idle again
Failed(ops) == [sim EXCEPT !.result = "err", !.ops = sim.ops \o ops]

\* step without the line boids_dirty = true
StepSetupNoMark ==
    /\ Idle
    /\ sim.steps < MaxSteps
    /\ \E ok \in BOOLEAN :
          LET s0 == [sim EXCEPT !.call = "step",
                                !.result = IF ok THEN "running" ELSE "err",
                                !.ops = <<Op("setup", ok)>>, !.ret = <<>>,
                                !.steps = sim.steps + 1, !.draws = 0]
              k == setup_kernel(boids, acc)
          IN  /\ sim' = s0
              /\ boids' = (IF ok THEN k.boids ELSE boids)
              /\ acc' = (IF ok THEN k.acc ELSE acc)
              /\ pc' = (IF ok THEN "root_reduce" ELSE "idle")
    /\ partitions' = <<>>
    /\ halves' = <<>>
    /\ UNCHANGED <<level, mask, total, levels, acc_in, stride>>
    /\ UNCHANGED entry

\* lines 179-188: boids_dirty = true, the setup dispatch
StepSetup ==
    /\ Idle
    /\ sim.steps < MaxSteps
    /\ \E ok \in BOOLEAN :
          LET s0 == [sim EXCEPT !.boids_dirty = TRUE, !.call = "step",
                                !.result = IF ok THEN "running" ELSE "err",
                                !.ops = <<Op("setup", ok)>>, !.ret = <<>>,
                                !.steps = sim.steps + 1, !.draws = 0]
              k == setup_kernel(boids, acc)
          IN  /\ sim' = s0
              /\ boids' = (IF ok THEN k.boids ELSE boids)
              /\ acc' = (IF ok THEN k.acc ELSE acc)
              /\ pc' = (IF ok THEN "root_reduce" ELSE "idle")
    /\ partitions' = <<>>
    /\ halves' = <<>>
    /\ UNCHANGED <<level, mask, total, levels, acc_in, stride>>
    /\ UNCHANGED entry

\* the Group of a half in this step, from draw k of the stream: the generator has
\* moved on since the last step
GroupOf(half, k) == acc_to_group(half, RngDraw(sim.seed + sim.steps, k))

Drew(half) == IF half.count > 0 THEN 1 ELSE 0

\* lines 189-193: reduce, the root group from the left half of slot 0
StepRootReduce ==
    /\ pc = "root_reduce"
    /\ \E fail \in 0..(ReducePasses(sim.n_boids) + 1) :
          LET r == reduce(acc, sim.n_boids, fail)
          IN  /\ acc' = r.acc
              /\ IF r.ok
                 THEN /\ partitions' = <<GroupOf(r.acc[1].left, sim.draws)>>
                      /\ halves' = <<r.acc[1].left>>
                      /\ sim' = [sim EXCEPT !.ops = sim.ops \o r.ops,
                                            !.draws = sim.draws + Drew(r.acc[1].left)]
                      /\ pc' = "sim_loop"
                 ELSE /\ sim' = Failed(r.ops)
                      /\ pc' = "idle"
                      /\ UNCHANGED <<partitions, halves>>
    /\ total' = 0
    /\ level' = 0
    /\ mask' = 0
    /\ UNCHANGED <<boids, levels, acc_in, stride>>
    /\ UNCHANGED entry

SimInLoop == pc = "sim_loop" /\ level < levels

\* lines 207-208: the parent is Some(plane): self.select(level, mask, plane)
StepSelect ==
    /\ SimInLoop
    /\ Parent.some
    /\ \E ok \in BOOLEAN :
          LET params == [level |-> level, mask |-> mask, plane_pos |-> Parent.center,
                         plane_normal |-> Parent.heading]
              k == select_kernel(boids, acc, params)
          IN  /\ boids' = (IF ok THEN k.boids ELSE boids)
              /\ acc' = (IF ok THEN k.acc ELSE acc)
              /\ sim' = (IF ok THEN [sim EXCEPT !.ops = Append(sim.ops, Op("select", TRUE))]
                         ELSE Failed(<<Op("select", FALSE)>>))
              /\ pc' = (IF ok THEN "sim_reduce" ELSE "idle")
    /\ UNCHANGED <<partitions, halves, level, mask, total, levels, acc_in, stride>>
    /\ UNCHANGED entry

\* lines 209-213 and 219: reduce, push the groups of slot 0's two halves
StepReduce ==
    /\ pc = "sim_reduce"
    /\ \E fail \in 0..(ReducePasses(sim.n_boids) + 1) :
          LET r == reduce(acc, sim.n_boids, fail)
              l == r.acc[1].left
              rt == r.acc[1].right
          IN  /\ acc' = r.acc
              /\ IF r.ok
                 THEN /\ partitions' = partitions \o
                            <<GroupOf(l, sim.draws), GroupOf(rt, sim.draws + Drew(l))>>
                      /\ halves' = halves \o <<l, rt>>
                      /\ sim' = [sim EXCEPT !.ops = sim.ops \o r.ops,
                                            !.draws = sim.draws + Drew(l) + Drew(rt)]
                      /\ Advance
                      /\ pc' = "sim_loop"
                 ELSE /\ sim' = Failed(r.ops)
                      /\ pc' = "idle"
                      /\ UNCHANGED <<partitions, halves, level, mask, total>>
    /\ UNCHANGED <<boids, levels, acc_in, stride>>
    /\ UNCHANGED entry

\* lines 214-219: the parent is None
StepAbsent ==
    /\ SimInLoop
    /\ ~Parent.some
    /\ partitions' = partitions \o <<None, None>>
    /\ halves' = halves \o <<HalfDefault, HalfDefault>>
    /\ Advance
    /\ UNCHANGED <<boids, acc, levels, pc, acc_in, stride, sim>>
    /\ UNCHANGED entry

\* the leaves sliced from the level above: leaves = (1 << (tree_depth - 1)) - 1
LeafGroupsFromAbove ==
    SelectSeq(SubSeq(partitions, Pow2(levels - 1), Len(partitions)), LAMBDA g : g.some)

\* lines 226-227: partitions[leaves..].iter().filter_map(|a| *a).collect()
LeafGroups ==
    SelectSeq(SubSeq(partitions, Pow2(levels), Len(partitions)), LAMBDA g : g.some)

\* engine.write(groups_gpu, &groups): the first Len(groups) entries are overwritten
write_groups(buf, groups) ==
    [i \in 1..Len(buf) |->
        IF i <= Len(groups) THEN [g |-> groups[i], fresh |-> TRUE]
        ELSE [g |-> buf[i].g, fresh |-> FALSE]]

\* lines 226-228: the leaf groups are written to groups_gpu
StepWriteGroups ==
    /\ pc = "sim_loop"
    /\ level = levels
    /\ \E ok \in BOOLEAN :
          /\ sim' = (IF ok
                     THEN [sim EXCEPT !.ops = Append(sim.ops, Op("write_groups", TRUE)),
                                      !.ret = LeafGroups,
                                      !.groups_gpu = write_groups(sim.groups_gpu, LeafGroups)]
                     ELSE Failed(<<Op("write_groups", FALSE)>>))
          /\ pc' = (IF ok THEN "motion" ELSE "idle")
    /\ UNCHANGED <<boids, acc, partitions, halves, level, mask, total, levels, acc_in,
                   stride>>
    /\ UNCHANGED entry

\* kernels/motion.comp: positions and headings are rewritten, tags are kept; the
\* arithmetic is not modelled, the result is population a of the family
motion_kernel(bs, a) ==
    [i \in 1..Len(bs) |-> [bs[i] EXCEPT !.pos = PopulationBoid(i - 1, a).pos,
                                        !.heading = PopulationBoid(i - 1, a).heading]]

\* lines 230-242: the motion dispatch, Ok(groups)
StepMotion ==
    /\ pc = "motion"
    /\ \E ok \in BOOLEAN :
          LET mp == motion_params_from_settings(sim.settings)
              a == sim.seed + sim.steps
          IN  /\ boids' = (IF ok THEN motion_kernel(boids, a) ELSE boids)
              /\ sim' = (IF ok
                         THEN [sim EXCEPT !.ops = Append(sim.ops, Op("motion", TRUE)),
                                          !.n_groups = mp.n_groups, !.result = "ok"]
                         ELSE [sim EXCEPT !.ops = Append(sim.ops, Op("motion", FALSE)),
                                          !.n_groups = mp.n_groups, !.result = "err",
                                          !.ret = <<>>])
    /\ pc' = "idle"
    /\ UNCHANGED <<acc, partitions, halves, level, mask, total, levels, acc_in, stride>>
    /\ UNCHANGED entry

NextSim ==
    \/ NewPanics
    \/ NewFails
    \/ NewOk
    \/ BoidsCall
    \/ StepSetup
    \/ StepRootReduce
    \/ StepSelect
    \/ StepReduce
    \/ StepAbsent
    \/ StepWriteGroups
    \/ StepMotion

SpecSim == InitSim /\ [][NextSim]_vars

------------------------------------------------------------------------------
(* Reading the flattened tree (indices are 0-based in the source) *)

\* the entry at 0-based index i
Node(i) == partitions[i + 1]

\* the count of the accumulator half the entry at 0-based index i was derived from
CountOf(i) == halves[i + 1].count

\* the 0-based parents whose two children have been appended
SplitParents == {p \in 0..(Len(partitions) - 1) : 2 * p + 2 <= Len(partitions) - 1}

\* the 0-based indices of the leaves: partitions[leaves..] with leaves = 2^D - 1
LeafIndices == (Pow2(levels) - 1)..(Len(partitions) - 1)

RECURSIVE SumCounts(_)
SumCounts(S) ==
    IF S = {} THEN 0
    ELSE LET i == CHOOSE x \in S : TRUE IN CountOf(i) + SumCounts(S \ {i})

PresentLeaves == {i \in LeafIndices : Node(i).some}

AllPresent == \A i \in 0..(Len(partitions) - 1) : Node(i).some

------------------------------------------------------------------------------
(* Claims about the tree build of main.rs, checked under Spec *)

\* C2: for every split performed with the Group at index `total` as the parent, the
\* two children's combined count equals the parent's count (the Selector matched
\* exactly the agents aggregated into the parent).
C2_ChildrenCountEqualsParent ==
    \A p \in SplitParents :
        Node(p).some => CountOf(2 * p + 1) + CountOf(2 * p + 2) = CountOf(p)

\* C3: after the tree build, the present leaves' counts sum to at most the agent
\* count, and to exactly the agent count when no Group of the tree is absent.
C3_LeafCountSum ==
    pc = "done" =>
        /\ SumCounts(PresentLeaves) <= Len(boids)
        /\ AllPresent => SumCounts(PresentLeaves) = Len(boids)

C3_Witness ==
    /\ pc = "done"
    /\ levels >= 2
    /\ Len(boids) = 4
    /\ AllPresent
    /\ SumCounts(PresentLeaves) = 4

C3_WitnessPruned ==
    /\ pc = "done"
    /\ levels >= 2
    /\ ~AllPresent
    /\ PresentLeaves # {}
    /\ SumCounts(PresentLeaves) < Len(boids)

\* dot(position - plane.position, plane.normal) for the plane of a half: the centroid
\* and the mean heading of the half, and the dot product, all in f32
DotFromSums(pt, half) ==
    V32Dot(V32Sub(V32FromInt(pt), V32Div(half.pos, half.count)),
           V32Div(half.heading, half.count))

\* the side of the parent's plane an agent position lies on
SideFromSums(pt, half) == DotFromSums(pt, half) > F32Zero

Seed(b) == [pos |-> b.pos, heading |-> b.heading, count |-> 1]

\* C4: one Selector pass with (level, mask, plane): every agent whose tag equals
\* (level, mask) gets side = dot(position - plane.position, plane.normal) > 0
\* (strictly: on the plane is false), its tag becomes
\* (level + 1, mask | (side ? 1 << level : 0)), and exactly one accumulator half is
\* seeded with {position, heading, 1}: left when side, right otherwise, the other zero.
C4_SelectorPass ==
    [][(pc = "loop" /\ pc' = "bubble") =>
         \A i \in 1..Len(boids) :
            (boids[i].level = level /\ boids[i].mask = mask) =>
               LET side == SideFromSums(boids[i].pos, halves[total + 1])
               IN  /\ boids'[i].level = level + 1
                   /\ boids'[i].mask = IF side THEN SetBit(mask, level) ELSE mask
                   /\ boids'[i].pos = boids[i].pos
                   /\ boids'[i].heading = boids[i].heading
                   /\ acc'[i].left = (IF side THEN Seed(boids[i]) ELSE HalfDefault)
                   /\ acc'[i].right = (IF side THEN HalfDefault ELSE Seed(boids[i]))]_vars

\* a Selector pass has just run at level >= 1; one matched agent has a dot product
\* of exactly 0 with a plane of non-zero normal and went right, another went left
C4_Witness ==
    /\ pc = "bubble"
    /\ level >= 1
    /\ halves[total + 1].heading # Zeros
    /\ \E i \in 1..Len(boids) :
          /\ acc[i].right.count = 1
          /\ boids[i].level = level + 1
          /\ DotFromSums(boids[i].pos, halves[total + 1]) = F32Zero
    /\ \E j \in 1..Len(boids) : acc[j].left.count = 1 /\ Bit(boids[j].mask, level) = 1

\* C12: one Selector pass with (level, mask) zeroes both halves of every agent's
\* accumulator slot regardless of what they held before (a matched agent's slot then
\* holds its one seed and nothing else); every agent whose tag is not (level, mask)
\* keeps its tag and both its halves are zero; no agent's position or heading changes.
C12_SelectorFrame ==
    [][(pc = "loop" /\ pc' = "bubble") =>
         /\ Len(boids') = Len(boids) /\ Len(acc') = Len(acc)
         /\ \A i \in 1..Len(boids) :
               /\ boids'[i].pos = boids[i].pos
               /\ boids'[i].heading = boids[i].heading
               /\ IF boids[i].level = level /\ boids[i].mask = mask
                  THEN {acc'[i].left, acc'[i].right} = {Seed(boids[i]), HalfDefault}
                  ELSE boids'[i] = boids[i] /\ acc'[i] = AccDefault]_vars

\* a Selector pass at level 1 has just run: slot 0, which held the sums of the level-0
\* split, belongs to an agent of the other mask and is zero, while another agent was
\* matched and seeded
C12_Witness ==
    /\ pc = "bubble"
    /\ level = 1
    /\ halves[2].count + halves[3].count = Len(boids)
    /\ boids[1].level = 1 /\ boids[1].mask # mask
    /\ acc[1] = AccDefault
    /\ \E j \in 1..Len(boids) : boids[j].level = 2 /\ acc[j] # AccDefault

\* C13: in every state of a tree construction every agent's tag has level <= D and
\* mask < 2^level; all tags are (0, 0) when the construction starts; a Selector pass
\* increments an agent's level by one or leaves it, and never clears a set mask bit.
C13_TagWellFormed ==
    /\ [](pc # "begin" =>
            \A i \in 1..Len(boids) :
               /\ boids[i].level <= levels
               /\ boids[i].mask < Pow2(boids[i].level))
    /\ [](pc = "root_bubble" =>
            \A i \in 1..Len(boids) : boids[i].level = 0 /\ boids[i].mask = 0)
    /\ [][(pc = "loop" /\ pc' = "bubble") =>
            \A i \in 1..Len(boids) :
               /\ boids'[i].level \in {boids[i].level, boids[i].level + 1}
               /\ (boids[i].level = level /\ boids[i].mask = mask)
                     => boids'[i].level = boids[i].level + 1
               /\ \A b \in 0..levels : Bit(boids[i].mask, b) = 1 => Bit(boids'[i].mask, b) = 1
               /\ \A b \in 0..levels :
                     (b # level /\ Bit(boids'[i].mask, b) = 1) => Bit(boids[i].mask, b) = 1]_vars

\* a depth-3 construction on buffers that came with tags of an earlier construction
\* has finished; one agent's tag is level 3 with bits 0 and 2 set
C13_Witness ==
    /\ pc = "done"
    /\ levels = 3
    /\ \E i \in 1..Len(boids) : entry.boids[i].level > 0 /\ entry.boids[i].mask > 0
    /\ \E i \in 1..Len(boids) :
          boids[i].level = 3 /\ Bit(boids[i].mask, 0) = 1 /\ Bit(boids[i].mask, 2) = 1

\* an upper bound on the statements build_accelerator still has to run: at most two
\* (select, bubble) per pair not yet processed, and the return
StepsLeft ==
    CASE pc = "begin" -> 2 * (Pow2(levels) - 1) + 3
      [] pc = "root_bubble" -> 2 * (Pow2(levels) - 1) + 2
      [] pc = "loop" -> 2 * (Pow2(levels) - 1 - total) + 1
      [] pc = "bubble" -> 2 * (Pow2(levels) - 1 - total)
      [] OTHER -> 0

\* C14: the Tree Builder processes the (level, mask) pairs in order of increasing
\* level and, within a level, increasing mask, one per value of `total`; the parent
\* looked up for (l, m) is at flattened index p = 2^l - 1 + m, its two children are
\* stored at indices 2p + 1 and 2p + 2; it always terminates (it can always take its
\* next step until it returns, and every step lowers the bound StepsLeft), after
\* exactly 2^D - 1 pairs, with 2^(D+1) - 1 entries of which the last 2^D are the leaves.
C14_TreeShape ==
    /\ [](pc \in {"loop", "bubble"} =>
            /\ level <= levels
            /\ mask < Pow2(level)
            /\ level < levels => total = Pow2(level) - 1 + mask
            /\ Len(partitions) = 2 * total + 1)
    /\ [][(pc \in {"loop", "bubble"} /\ total' # total) =>
            /\ level < levels
            /\ total' = total + 1
            /\ SubSeq(partitions', 1, Len(partitions)) = partitions
            /\ Len(partitions') = 2 * (Pow2(level) - 1 + mask) + 3
            /\ <<level', mask'>> = (IF mask + 1 < Pow2(level)
                                    THEN <<level, mask + 1>> ELSE <<level + 1, 0>>)]_vars
    /\ [](pc = "done" =>
            /\ total = Pow2(levels) - 1
            /\ Len(partitions) = Pow2(levels + 1) - 1
            /\ Cardinality(LeafIndices) = Pow2(levels)
            /\ LeafIndices = {2 * p + c : p \in (Pow2(levels - 1) - 1)..(Pow2(levels) - 2),
                                          c \in {1, 2}})
    /\ [](pc # "done" => ENABLED Next)
    /\ [][StepsLeft' < StepsLeft /\ StepsLeft' >= 0]_vars

\* a finished depth-3 tree: 7 pairs processed, 15 entries, present and absent leaves
C14_Witness ==
    /\ pc = "done"
    /\ levels = 3
    /\ total = 7
    /\ Len(partitions) = 15
    /\ \E q \in LeafIndices : Node(q).some
    /\ \E q \in LeafIndices : ~Node(q).some

\* lines 116-125 for one (level, mask) with its parent: select and bubble and the two
\* planes of slot 0, or two None; the buffers afterwards
SplitOne(bs, ac, parent, l, m) ==
    IF parent.some
    THEN LET b2 == SubSeq(select_boids(bs, ac, l, m, parent), 1, Len(bs))
             a2 == bubble(SubSeq(select_accs(bs, ac, l, m, parent), 1, Len(ac)))
         IN  [boids |-> b2, acc |-> a2, children |-> plane_from_acc0(a2)]
    ELSE [boids |-> bs, acc |-> ac, children |-> <<None, None>>]

\* the splits of level l performed in the order `order` of its masks, each mask with
\* the parent of its own index (parents[m + 1] is the Group at index 2^l - 1 + m):
\* the final agents and, per mask, the two children
RECURSIVE SplitLevel(_, _, _, _, _, _)
SplitLevel(bs, ac, parents, l, order, out) ==
    IF order = <<>>
    THEN [boids |-> bs, children |-> out]
    ELSE LET m == Head(order)
         IN  The({SplitLevel(r.boids, r.acc, parents, l, Tail(order),
                             out \cup {<<m, r.children>>}) :
                     r \in {SplitOne(bs, ac, parents[m + 1], l, m)}})

\* the orders in which the k masks 0..k-1 are tried
Orders(k) ==
    IF k <= MaxPermuted
    THEN {o \in [1..k -> 0..(k - 1)] : \A i, j \in 1..k : o[i] = o[j] => i = j}
    ELSE {[i \in 1..k |-> (i - 1 + r) % k] : r \in {0, 1}}
         \cup {[i \in 1..k |-> k - i]}

\* the agents as they were before the level that has just been completed (level - 1):
\* an agent now at `level` was matched in it and had the mask without the new bit
BeforeLevel ==
    [i \in 1..Len(boids) |->
        IF boids[i].level = level
        THEN [boids[i] EXCEPT !.level = level - 1,
                              !.mask = boids[i].mask % Pow2(level - 1)]
        ELSE boids[i]]

\* C15: for a level l and its parent Groups, performing the per-mask splits (Selector
\* then Reducer) in any order of the masks yields the same final agent tags and, for
\* every tree index, the same child Group as performing them in increasing mask
\* order, which is what the tree build has just done.
C15_OrderIndependent ==
    (pc = "loop" /\ mask = 0 /\ level >= 1) =>
        LET l == level - 1
            k == Pow2(l)
            parents == SubSeq(partitions, k, 2 * k - 1)
        IN  \A order \in Orders(k) :
               LET r == SplitLevel(SubSeq(BeforeLevel, 1, Len(boids)), acc, parents, l,
                                   order, {})
               IN  /\ r.boids = boids
                   /\ r.children = {<<m, <<Node(2 * k - 1 + 2 * m), Node(2 * k + 2 * m)>>>> :
                                       m \in 0..(k - 1)}

\* level 2 of a depth-3 tree has just been completed, and at least two of its four
\* masks had a present parent and produced a present child
C15_Witness ==
    /\ pc = "loop"
    /\ mask = 0
    /\ level = 3
    /\ Cardinality({m \in 0..3 : /\ Node(3 + m).some
                                 /\ (Node(7 + 2 * m).some \/ Node(8 + 2 * m).some)}) >= 2

\* C5: when the parent Group at index `total` is absent, the Tree Builder appends
\* exactly two absent children and leaves every agent and every accumulator slot
\* unchanged (no Selector, no Reducer pass); so the children of an absent Group are
\* absent, down to the leaves.
C5_AbsentPropagation ==
    /\ [][(pc = "loop" /\ level < levels /\ ~Parent.some) =>
            /\ partitions' = partitions \o <<None, None>>
            /\ boids' = boids
            /\ acc' = acc
            /\ pc' = "loop"]_vars
    /\ [](\A p \in SplitParents :
            ~Node(p).some => (~Node(2 * p + 1).some /\ ~Node(2 * p + 2).some))

\* a finished depth-3 tree with an absent Group at level 2 whose two leaf children
\* are absent, beside a present leaf
C5_Witness ==
    /\ pc = "done"
    /\ levels = 3
    /\ \E p \in 3..6 :
          ~Node(p).some /\ ~Node(2 * p + 1).some /\ ~Node(2 * p + 2).some
    /\ \E q \in LeafIndices : Node(q).some

------------------------------------------------------------------------------
(* bubble of main.rs on synthetic accumulator buffers, one action per pass *)

\* slot i (0-based) of the synthetic buffer with fill numbers a, b: a Selector-like slot
\* (one half seeded with count 1), an empty slot, or a slot with both halves filled
SyntheticSlot(i, a, b) ==
    LET p == <<((i * (a + 1)) % 5) - 2, ((i \div 3) % 3) - 1, a - b>>
        h == <<1 - 2 * (i % 2), ((i + b) % 3) - 1, (i \div 4) % 2>>
        one == [pos |-> p, heading |-> h, count |-> 1]
        kind == (i + a + 2 * b) % 4
    IN  CASE kind = 0 -> [left |-> one, right |-> HalfDefault]
          [] kind = 1 -> [left |-> HalfDefault, right |-> one]
          [] kind = 2 -> [left |-> one,
                          right |-> [pos |-> h, heading |-> p, count |-> 1 + b]]
          [] OTHER -> AccDefault

\* the Simulation object at the entry of self.reduce() in the first step() after
\* Simulation::new(Settings { work_groups: wg, tree_depth: td, .. }): what new
\* (sim.rs lines 118-171) and lines 179-188 of step have set
SimAtReduce(wg, td, a) ==
    [NoSim EXCEPT !.state = "live", !.requested = Requested(wg, td),
                  !.settings = Requested(wg, td), !.n_boids = wg * LOCAL_X,
                  !.boids_host = Population(wg * LOCAL_X, a), !.boids_dirty = TRUE,
                  !.groups_gpu = [i \in 1..Pow2(td) |-> [g |-> None, fresh |-> FALSE]],
                  !.buffers = 3, !.call = "step", !.result = "running",
                  !.ops = <<Op("setup", TRUE)>>, !.ret = <<>>, !.steps = 1,
                  !.seed = a, !.draws = 0]

\* bubble of main.rs is entered on a buffer of synthetic slots; Simulation::reduce
\* is entered by the first step() of a Simulation of wg work groups, on the agents
\* and the buffer the setup dispatch has left (sim.rs lines 180-189)
InitReduce ==
    /\ \/ /\ \E n \in ReduceSizes, a \in 0..MaxFill, b \in 0..MaxFill :
                acc = [i \in 1..n |-> SyntheticSlot(i - 1, a, b)]
          /\ stride = 2
          /\ pc = "bubbling"
          /\ sim = NoSim
          /\ boids = <<>>
          /\ levels = 0
       \/ /\ \E wg \in 1..MaxReduceGroups, td \in 1..MaxTreeDepth, a \in 0..MaxSeed,
                junk \in BOOLEAN :
                LET k == setup_kernel(Population(wg * LOCAL_X, a),
                                      [i \in 1..(wg * LOCAL_X) |->
                                          IF junk THEN JunkAcc ELSE AccDefault])
                IN  /\ boids = k.boids
                    /\ acc = k.acc
                    /\ levels = td
                    /\ sim = SimAtReduce(wg, td, a)
          /\ stride = 1
          /\ pc = "reducing"
    /\ acc_in = acc
    /\ partitions = <<>>
    /\ halves = <<>>
    /\ level = 0
    /\ mask = 0
    /\ total = 0
    /\ entry = <<>>

\* lines 185-187: one turn of the while loop
BubblePass ==
    /\ pc = "bubbling"
    /\ bubble_continues(acc, stride)
    /\ acc' = bubble_step(acc, stride)
    /\ stride' = 2 * stride
    /\ UNCHANGED <<boids, partitions, halves, level, mask, total, levels, pc, acc_in, sim>>
    /\ UNCHANGED entry

\* line 185: the guard fails, bubble returns
BubbleReturn ==
    /\ pc = "bubbling"
    /\ ~bubble_continues(acc, stride)
    /\ pc' = "reduced"
    /\ UNCHANGED <<boids, acc, partitions, halves, level, mask, total, levels, acc_in,
                   stride, sim>>
    /\ UNCHANGED entry

\* sim.rs lines 265-276: one turn of the while loop of Simulation::reduce; ok: the
\* dispatch succeeds, otherwise the ? of line 274 returns the error, the buffer
\* and the stride as they were
ReducePass ==
    /\ pc = "reducing"
    /\ stride < sim.n_boids
    /\ \E ok \in BOOLEAN :
          IF ok
          THEN /\ acc' = reduce_kernel(acc, stride)
               /\ stride' = 2 * stride
               /\ sim' = [sim EXCEPT !.ops = Append(sim.ops, Op("reduce", TRUE))]
               /\ pc' = pc
          ELSE /\ sim' = Failed(<<Op("reduce", FALSE)>>)
               /\ pc' = "idle"
               /\ UNCHANGED <<acc, stride>>
    /\ UNCHANGED <<boids, partitions, halves, level, mask, total, levels, acc_in>>
    /\ UNCHANGED entry

\* sim.rs lines 277-279: the loop is over, slot 0 is read back and returned; ok:
\* the read succeeds, otherwise the ? of line 278 returns the error and no
\* accumulator
ReduceRead ==
    /\ pc = "reducing"
    /\ ~(stride < sim.n_boids)
    /\ \E ok \in BOOLEAN :
          IF ok
          THEN /\ sim' = [sim EXCEPT !.ops = Append(sim.ops, Op("read_acc", TRUE))]
               /\ pc' = "reduce_read"
          ELSE /\ sim' = Failed(<<Op("read_acc", FALSE)>>)
               /\ pc' = "idle"
    /\ UNCHANGED <<boids, acc, partitions, halves, level, mask, total, levels, acc_in,
                   stride>>
    /\ UNCHANGED entry

NextReduce ==
    \/ BubblePass
    \/ BubbleReturn
    \/ ReducePass
    \/ ReduceRead

SpecReduce == InitReduce /\ [][NextReduce]_vars

\* the element-wise sum of the left halves of slots lo..hi (1-based), by halving the
\* range (a plain left-to-right recursion over 256 slots is too deep to evaluate)
RECURSIVE SumLeft(_, _, _)
SumLeft(ac, lo, hi) ==
    IF lo > hi THEN HalfDefault
    ELSE IF lo = hi THEN ac[lo].left
    ELSE LET mid == (lo + hi) \div 2
         IN  The({HalfAdd(x, y) : x \in {SumLeft(ac, lo, mid)},
                                      y \in {SumLeft(ac, mid + 1, hi)}})

RECURSIVE SumRight(_, _, _)
SumRight(ac, lo, hi) ==
    IF lo > hi THEN HalfDefault
    ELSE IF lo = hi THEN ac[lo].right
    ELSE LET mid == (lo + hi) \div 2
         IN  The({HalfAdd(x, y) : x \in {SumRight(ac, lo, mid)},
                                      y \in {SumRight(ac, mid + 1, hi)}})

\* C1: for a buffer of N slots, N in {1, 2, 16, 256}, after the complete sequence of
\* stride-doubling passes slot 0's left and right halves each equal the exact
\* element-wise sum (position_sum, heading_sum, count) of that half over all N slots
\* as they were before the reduction.
C1_ReductionCorrect ==
    (pc = "reduced" /\ Len(acc) \in ReduceSizes) =>
        /\ acc[1].left = SumLeft(acc_in, 1, Len(acc_in))
        /\ acc[1].right = SumRight(acc_in, 1, Len(acc_in))
        /\ bubble(acc_in)[1] = acc[1]

\* a finished reduction of 256 slots in which both halves hold more than one agent
C1_Witness ==
    /\ pc = "reduced"
    /\ Len(acc) = 256
    /\ stride = 512
    /\ acc[1].left.count > 64
    /\ acc[1].right.count > 64
    /\ acc_in[1].left.count + acc_in[1].right.count <= 1
    /\ acc[1].left.pos # Zeros

------------------------------------------------------------------------------
(* Claims about the Simulation of sim.rs, checked under SpecSim *)

\* C6: a Group derived from an accumulator half is absent exactly when the half's
\* count is 0; otherwise its centroid is position_sum / count and its mean heading is
\* heading_sum / count of that half, so two derivations from the same half give the
\* same Group.
C6_GroupFromHalf ==
    /\ \A i \in 1..Len(partitions) :
          /\ partitions[i].some <=> halves[i].count # 0
          /\ partitions[i].some =>
                /\ partitions[i].center = V32Div(halves[i].pos, halves[i].count)
                /\ partitions[i].heading = V32Div(halves[i].heading, halves[i].count)
    /\ \A i, j \in 1..Len(partitions) :
          halves[i] = halves[j] => partitions[i] = partitions[j]

\* the read-backs of the agent buffer in a log of device operations
ReadBacks(ops) == Cardinality({i \in 1..Len(ops) : ops[i].op = "read_boids"})

\* a transition that is one whole boids() call
IsBoidsCall == Idle /\ pc' = "idle" /\ sim'.call = "boids"

\* a transition that begins a step() call
IsStepStart == Idle /\ sim'.call = "step" /\ sim'.steps = sim.steps + 1

\* C7 as stated: every step marks the host copy stale; the first boids() call after
\* a step performs exactly one device read-back and clears the stale mark; every
\* further boids() call before the next step performs no read-back and returns the
\* same cached snapshot.
C7_Original ==
    [][/\ IsStepStart => sim'.boids_dirty
       /\ IsBoidsCall =>
            IF sim.boids_dirty
            THEN ReadBacks(sim'.ops) = 1 /\ ~sim'.boids_dirty
            ELSE /\ ReadBacks(sim'.ops) = 0
                 /\ sim'.ret = sim.boids_host
                 /\ sim'.boids_host = sim.boids_host]_vars

\* C7, amended: every step marks the host copy stale; a boids() call made while the
\* mark is set issues exactly one device read-back and, if that read-back succeeds,
\* clears the mark and returns the device's agents; if the read-back fails the call
\* returns the error, the mark stays set and the host copy is unchanged; every
\* boids() call made while the mark is clear performs no read-back and returns the
\* same cached snapshot.
C7_LazySync ==
    [][/\ IsStepStart => sim'.boids_dirty
       /\ IsBoidsCall =>
            IF sim.boids_dirty
            THEN /\ ReadBacks(sim'.ops) = 1
                 /\ Len(sim'.ops) = 1
                 /\ IF sim'.result = "ok"
                    THEN /\ ~sim'.boids_dirty
                         /\ sim'.boids_host = boids
                         /\ sim'.ret = boids
                    ELSE /\ sim'.boids_dirty
                         /\ sim'.boids_host = sim.boids_host
            ELSE /\ sim'.ops = <<>>
                 /\ sim'.result = "ok"
                 /\ ~sim'.boids_dirty
                 /\ sim'.ret = sim.boids_host
                 /\ sim'.boids_host = sim.boids_host]_vars

\* after a completed step, a boids() call that found the mark clear: no read-back,
\* and the snapshot returned is the one the earlier read-back fetched
C7_Witness ==
    /\ sim.call = "boids"
    /\ sim.steps >= 1
    /\ sim.ops = <<>>
    /\ ~sim.boids_dirty
    /\ sim.ret = boids
    /\ sim.ret # Population(sim.n_boids, 0)
    /\ \E i \in 1..Len(boids) : boids[i].level > 0

\* C8: the group count the Motion Integrator is parameterised with equals the number
\* of present leaf Groups written to the group buffer in this step (the length of the
\* list step returns), so it reads no entry that was not written in this step.
C8_MotionGroupCount ==
    (sim.call = "step" /\ sim.result = "ok") =>
        /\ sim.n_groups = Len(sim.ret)
        /\ \A i \in 1..sim.n_groups :
              i <= Len(sim.groups_gpu) /\ sim.groups_gpu[i].fresh

\* C9: if a dispatch, read or write issued during step() fails, step() returns that
\* error at once: it is the last operation of the step, no operation is issued after
\* it (nor the failed one again), and the host copy stays marked stale.
C9_DeviceErrorsFatal ==
    sim.call = "step" =>
        /\ \A i \in 1..(Len(sim.ops) - 1) : sim.ops[i].ok
        /\ (sim.ops # <<>> /\ ~sim.ops[Len(sim.ops)].ok) =>
              (pc = "idle" /\ sim.result = "err" /\ sim.boids_dirty)
        /\ sim.result = "err" => ~sim.ops[Len(sim.ops)].ok
        /\ sim.result = "ok" => \A i \in 1..Len(sim.ops) : sim.ops[i].ok

\* a step that failed in the accumulator read-back of a reduce after a select
C9_Witness ==
    /\ sim.call = "step"
    /\ sim.result = "err"
    /\ pc = "idle"
    /\ sim.boids_dirty
    /\ Len(sim.ops) >= 8
    /\ sim.ops[Len(sim.ops)] = Op("read_acc", FALSE)
    /\ \E i \in 1..Len(sim.ops) : sim.ops[i] = Op("select", TRUE)

\* C10: construction with tree_depth = 0 or work_groups = 0 is rejected: no
\* Simulation is produced, no buffer is allocated (nothing is asked of the device),
\* and the setting is not clamped: a Simulation that exists holds the settings it
\* was asked for, both positive.
C10_InvalidSettingsRejected ==
    /\ (sim.call # "none"
          /\ (sim.requested.work_groups = 0 \/ sim.requested.tree_depth = 0)) =>
          /\ sim.state = "panicked"
          /\ sim.buffers = 0
          /\ sim.ops = <<>>
          /\ sim.settings = NoSim.settings
          /\ boids = <<>> /\ acc = <<>> /\ sim.groups_gpu = <<>>
    /\ sim.state = "live" =>
          /\ sim.settings = sim.requested
          /\ sim.settings.work_groups > 0
          /\ sim.settings.tree_depth > 0
          /\ sim.n_boids = LOCAL_X * sim.settings.work_groups

\* new was called with a positive work_groups and tree_depth = 0, and panicked
C10_Witness ==
    /\ sim.state = "panicked"
    /\ sim.requested.work_groups > 0
    /\ sim.requested.tree_depth = 0
    /\ sim.buffers = 0

\* C16: in any sequence of new(), step() and boids() calls, failed ones included,
\* whenever boids() returns successfully the snapshot it returns equals the current
\* contents of the device agent buffer; whenever the stale mark is clear, the host
\* copy equals the device buffer.
C16_HostNeverStale ==
    /\ (sim.state = "live" /\ ~sim.boids_dirty) => sim.boids_host = boids
    /\ (sim.state = "live" /\ sim.call = "boids" /\ sim.result = "ok") =>
          /\ sim.ret = boids
          /\ sim.ret = sim.boids_host
    /\ (sim.state = "live" /\ pc # "idle") => sim.boids_dirty

\* the only step so far failed after a select had retagged agents on the device (it
\* never reached the motion dispatch); the boids() call after it read back and
\* returned the retagged agents
C16_Witness ==
    /\ sim.state = "live"
    /\ sim.call = "boids" /\ sim.result = "ok"
    /\ sim.ops = <<Op("read_boids", TRUE)>>
    /\ sim.steps = 1
    /\ sim.n_groups = 0
    /\ \E i \in 1..Len(boids) : boids[i].level > 0
    /\ sim.ret = boids
    /\ sim.ret # Population(sim.n_boids, sim.seed)

------------------------------------------------------------------------------
(* the accumulator buffer and the tags between constructions, under Spec *)

\* the nested loops of build_accelerator from (l, m) on, as a function of the buffers
\* and the Groups pushed so far
RECURSIVE BuildFrom(_, _, _, _, _, _)
BuildFrom(bs, ac, parts, l, m, D) ==
    IF l >= D
    THEN [boids |-> bs, partitions |-> parts]
    ELSE The({BuildFrom(r.boids, r.acc, parts \o r.children,
                        IF m + 1 < Pow2(l) THEN l ELSE l + 1,
                        IF m + 1 < Pow2(l) THEN m + 1 ELSE 0, D) :
                 r \in {SplitOne(bs, ac, parts[Pow2(l) + m], l, m)}})

\* build_accelerator(bs, ac) with `levels` = D: the Groups it returns and the agents
\* it leaves
build_accelerator(bs, ac, D) ==
    LET b0 == [i \in 1..Len(bs) |-> [bs[i] EXCEPT !.level = 0, !.mask = 0]]
        a0 == bubble(SubSeq(root_select(b0, ac), 1, Len(ac)))
    IN  BuildFrom(b0, a0, <<plane_from_acc0(a0)[1]>>, 0, 0, D)

\* the agents of `entry` as random_boids made them: tags (0, 0)
Untagged == [i \in 1..Len(entry.boids) |-> [entry.boids[i] EXCEPT !.level = 0, !.mask = 0]]

\* C17: the accumulator buffer carries no state across tree constructions: the Group
\* sequence and the final tags of a construction are those of the construction from
\* the same agent positions and headings with tags (0, 0) and an all-default
\* accumulator buffer, whatever the prior accumulator contents and prior tags were;
\* so two constructions from the same positions and headings agree.
C17_NoCarriedState ==
    pc = "done" =>
        LET clean == build_accelerator(Untagged, [i \in 1..Len(entry.acc) |-> AccDefault],
                                       levels)
        IN  /\ partitions = clean.partitions
            /\ boids = clean.boids

\* a finished construction of depth 2 or more that was handed tagged agents and an
\* accumulator buffer with sums in both halves, and that split its root into two
\* present children
C17_Witness ==
    /\ pc = "done"
    /\ levels >= 2
    /\ \E i \in 1..Len(entry.boids) : entry.boids[i].level > 0
    /\ \A i \in 1..Len(entry.acc) :
          entry.acc[i].left.count > 0 /\ entry.acc[i].right.count > 0
    /\ Node(1).some /\ Node(2).some

\* C18: the separating plane handed to the Selector for a present parent Group has
\* its position at the parent's centroid and a normal orthogonal to the parent's mean
\* heading: dot(normal, mean_heading) = 0, the mean heading being the heading sum of
\* the parent's half over its count.
C18_NormalOrthogonalToHeading ==
    (InLoop /\ Parent.some) =>
        /\ Parent.pos = V32Div(halves[total + 1].pos, halves[total + 1].count)
        /\ V32Dot(Parent.normal,
                  V32Div(halves[total + 1].heading, halves[total + 1].count)) = F32Zero

------------------------------------------------------------------------------
(* the device group buffer, under SpecSim *)

\* C19: in every step, for every depth D >= 1 and every agent configuration, the
\* number of Groups written to the device group buffer is at most 2^D, the capacity
\* the buffer was allocated with at construction, and the slice of leaves taken from
\* the flattened Group sequence (from index 2^D - 1) is within the sequence's bounds.
C19_GroupBufferCapacity ==
    /\ sim.state = "live" =>
          /\ levels >= 1
          /\ Len(sim.groups_gpu) = Pow2(levels)
    /\ (sim.state = "live" /\ pc = "sim_loop" /\ level = levels) =>
          /\ Pow2(levels) - 1 <= Len(partitions)
          /\ Len(partitions) - (Pow2(levels) - 1) = Pow2(levels)
          /\ Len(LeafGroups) <= Len(sim.groups_gpu)
    /\ (sim.state = "live" /\ pc = "motion") =>
          /\ Len(sim.ret) <= Len(sim.groups_gpu)
          /\ Cardinality({i \in 1..Len(sim.groups_gpu) : sim.groups_gpu[i].fresh})
                = Len(sim.ret)

\* a step of a depth-2 tree whose four leaves are all present has written four
\* Groups and filled the buffer
C19_Witness ==
    /\ sim.state = "live"
    /\ pc = "motion"
    /\ levels = 2
    /\ Len(sim.ret) = 4
    /\ \A i \in 1..Len(sim.groups_gpu) : sim.groups_gpu[i].fresh

====
